---- MODULE Spec2Model ----
(***************************************************************************)
(* Model of src/app.py: the get_report request handler and the helpers it  *)
(* calls (init_db, cleanup_invalid_records, already_downloaded,            *)
(* save_to_db, save_file_locally, save_to_gdrive).                         *)
(*                                                                         *)
(* Each inbound request is handled by one worker.  A worker's steps are    *)
(* the points of the handler at which it touches state shared with other   *)
(* workers (the SQLite table, the storage directory) or calls out to the   *)
(* network.  A single SQL statement is atomic; a file is written chunk by  *)
(* chunk.  Every exception the code catches is a nondeterministic outcome  *)
(* of the step that can raise it.                                          *)
(***************************************************************************)
EXTENDS Integers, FiniteSets, Sequences, TLC

\* ---------------------------------------------------------------- bounds
MaxRuns == 2        \* get_report requests handled in one behaviour
MaxTime == 1        \* the wall clock runs over the seconds 0..MaxTime
NChunks == 2        \* chunks r.iter_content yields for one artifact

\* rows the ledger holds at most when already_downloaded is examined alone
MaxRows == 2

\* ------------------------------------------------------ program constants
MaxAttempts == 3    \* for attempt in range(3)

\* ------------------------------------------------------------ input sets
\* the worker pool, in the order in which free workers are taken
Pool == <<"w1", "w2">>

Workers == {Pool[i] : i \in DOMAIN Pool}
Apps == {"6", "7"}
Reports == {"25"}
ReqIds == {"1", "2"}
\* values of data.get("id") in a status body; 0 stands for a falsy id
\* (missing, null, 0)
ApiIds == {0, 1, 2}
\* non-200, non-404 status codes of the status endpoint
ErrorCodes == {400, 401, 403, 500}

\* The ids are interchangeable, so the first request of a behaviour takes
\* one fixed id of each set; later requests take any.
FirstOr(n, first, ids) == IF n = 0 THEN {first} ELSE ids

\* the statuses of the status endpoint the specification calls transient
\* (404 and 5xx); used only to keep book of the replies a run received
TransientCodes == {c \in {404} \cup ErrorCodes : c = 404 \/ c >= 500}

\* Python's None where a string is expected
PyNone == "<None>"

\* str(x) for the values the handler applies it to: integers of a status
\* body, strings (unchanged) and None
IntStr(n) == CASE n = 0 -> "0" [] n = 1 -> "1" [] n = 2 -> "2" [] OTHER -> "3"

PyStr(s) == IF s = PyNone THEN "None" ELSE s

\* truthiness of a string-or-None value
Truthy(s) == s # PyNone /\ s # ""

\* ------------------------------------------------------- names and paths
\* f"{application_id}-{report_id}-{api_render_id}-{now:%Y%m%d_%H%M%S}.csv";
\* secure_filename leaves the result unchanged for the ids drawn here
\* (digits only), so the name is the tuple of its four parts.
FileName(application_id, report_id, api_render_id, ts) ==
    [app |-> application_id, rep |-> report_id, api |-> IntStr(api_render_id), ts |-> ts]

NoName == [app |-> "", rep |-> "", api |-> "", ts |-> 0]

\* os.path.join(STORAGE_PATH, safe_filename)
LocalPath(file_name) == [kind |-> "local", name |-> file_name, link |-> 0]

\* TempPath naming the final path: the download is written in place
TempPath_InPlace(file_name) == [kind |-> "local", name |-> file_name, link |-> 0]

\* local_path + ".tmp"
TempPath(file_name) == [kind |-> "tmp", name |-> file_name, link |-> 0]

\* file.get('webContentLink') of the Drive file created by upload number n
GdriveLink(file_name, n) == [kind |-> "gdrive", name |-> file_name, link |-> n]

\* save_file_locally returned None
NoPath == [kind |-> "none", name |-> NoName, link |-> 0]

\* ------------------------------------------------------------- responses
\* The JSON body and HTTP status get_report returns.  error / message are
\* the body's "error" / "message" texts ("" when the key is absent).
Response(status, error, message, file_name, render_id) ==
    [status |-> status, error |-> error, message |-> message,
     file_name |-> file_name, render_id |-> render_id]

NoResponse == Response(0, "", "", NoName, "")

BadRequest == Response(400, "application_id, report_id, and render_id required", "", NoName, "")

MissingToken == Response(401, "Missing Authorization token", "", NoName, "")

CachedResult(file_name, render_id) ==
    Response(200, "", "Report already processed", file_name, render_id)

UpstreamStatus(code) == Response(code, "Error fetching render", "", NoName, "")

NoFileInfo == Response(404, "No report file info found", "", NoName, "")

NotFoundAfterRetries == Response(404, "Render not found after retries", "", NoName, "")

SaveFailed == Response(500, "Failed to save file", "", NoName, "")

FreshResult(file_name, render_id) ==
    Response(200, "", "File saved successfully", file_name, render_id)

NotReadyYet == Response(200, "", "Report not ready yet", NoName, "")

InternalError == Response(500, "Internal server error", "", NoName, "")

\* --------------------------------------------------------- status replies
\* The replies a call of the status endpoint can produce: an exception of
\* requests.get (timeout, connection error), a non-200 status, a 200 with a
\* body that is no JSON object, a 200 with a JSON object.
StatusReply(kind, code, id, output_file, is_ready) ==
    [kind |-> kind, code |-> code, id |-> id, output_file |-> output_file,
     is_ready |-> is_ready]

NoReply == StatusReply("none", 0, 0, FALSE, FALSE)

StatusReplies ==
    {StatusReply("exception", 0, 0, FALSE, FALSE)}
    \cup {StatusReply("http", c, 0, FALSE, FALSE) : c \in {404} \cup ErrorCodes}
    \cup {StatusReply("not_json", 200, 0, FALSE, FALSE)}
    \cup {StatusReply("json", 200, id, TRUE, ready) :
            id \in ApiIds \ {0}, ready \in BOOLEAN}
    \cup {StatusReply("json", 200, 0, TRUE, TRUE)}
    \cup {StatusReply("json", 200, id, FALSE, TRUE) : id \in ApiIds \ {0}}

\* ---------------------------------------------------------------- ledger
\* One row of the table downloaded_reports.
Row(id, application_id, report_id, request_render_id, api_render_id, file_name, file_path, at) ==
    [id |-> id, application_id |-> application_id, report_id |-> report_id,
     request_render_id |-> request_render_id, api_render_id |-> api_render_id,
     file_name |-> file_name, file_path |-> file_path, downloaded_at |-> at]

\* the columns of the unique index ux_reports_unique
UniqueKey(r) == <<r.application_id, r.report_id, r.api_render_id, r.file_name>>

\* the rowid an INSERT assigns (AUTOINCREMENT: above every rowid in use)
NextRowId(rows) ==
    IF rows = {} THEN 1
    ELSE 1 + (CHOOSE m \in {r.id : r \in rows} : \A r \in rows : r.id <= m)

\* what already_downloaded returns when no row is found
Absent == [file_name |-> NoName, file_path |-> NoPath]

\* MatchingRows keyed on request_render_id whenever that is given
MatchingRows_RequestFirst(rows, application_id, report_id, request_render_id, api_render_id) ==
    IF Truthy(request_render_id)
    THEN {r \in rows : /\ r.application_id = application_id
                       /\ r.report_id = report_id
                       /\ r.request_render_id = PyStr(request_render_id)}
    ELSE {r \in rows : /\ r.application_id = application_id
                       /\ r.report_id = report_id
                       /\ r.api_render_id = PyStr(api_render_id)}

\* the rows the WHERE clause of already_downloaded selects: keyed on
\* api_render_id when that argument is truthy, on request_render_id otherwise
MatchingRows(rows, application_id, report_id, request_render_id, api_render_id) ==
    IF Truthy(api_render_id)
    THEN {r \in rows : /\ r.application_id = application_id
                       /\ r.report_id = report_id
                       /\ r.api_render_id = PyStr(api_render_id)}
    ELSE {r \in rows : /\ r.application_id = application_id
                       /\ r.report_id = report_id
                       /\ r.request_render_id = PyStr(request_render_id)}

\* The values already_downloaded can return when its query runs without an
\* exception: ORDER BY downloaded_at DESC LIMIT 1 picks a newest row (any
\* of them on a tie), or there is no row.
AlreadyDownloaded(rows, application_id, report_id, request_render_id, api_render_id) ==
    LET found == MatchingRows(rows, application_id, report_id, request_render_id, api_render_id)
        newest == {r \in found : \A s \in found : s.downloaded_at <= r.downloaded_at}
    IN  IF found = {} THEN {Absent}
        ELSE {[file_name |-> r.file_name, file_path |-> r.file_path] : r \in newest}

\* SaveToDb without the unique index: every call inserts
SaveToDb_PlainInsert(rows, application_id, report_id, request_render_id, api_render_id, file_name, file_path, at) ==
    rows \cup {Row(NextRowId(rows), application_id, report_id, request_render_id,
                   api_render_id, file_name, file_path, at)}

\* save_to_db's statement: INSERT ... ON CONFLICT(application_id, report_id,
\* api_render_id, file_name) DO UPDATE SET file_path, downloaded_at
SaveToDb(rows, application_id, report_id, request_render_id, api_render_id, file_name, file_path, at) ==
    LET new == Row(NextRowId(rows), application_id, report_id, request_render_id,
                   api_render_id, file_name, file_path, at)
        hit == {r \in rows : UniqueKey(r) = UniqueKey(new)}
    IN  IF hit = {} THEN rows \cup {new}
        ELSE (rows \ hit) \cup
             {[r EXCEPT !.file_path = file_path, !.downloaded_at = at] : r \in hit}

\* CleanupInvalidRecords keeping one row per render: the groups leave out
\* file_name
CleanupInvalidRecords_PerRender(rows) ==
    LET valid == {r \in rows : r.file_name # NoName /\ r.file_path # NoPath}
    IN  {r \in valid : \A s \in valid :
            (/\ s.application_id = r.application_id /\ s.report_id = r.report_id
             /\ s.api_render_id = r.api_render_id) => s.id <= r.id}

\* cleanup_invalid_records: delete rows without name or path, then every
\* row that is not the MAX(id) row of its unique-key group
CleanupInvalidRecords(rows) ==
    LET valid == {r \in rows : r.file_name # NoName /\ r.file_path # NoPath}
    IN  {r \in valid : \A s \in valid : UniqueKey(s) = UniqueKey(r) => s.id <= r.id}

\* ------------------------------------------------------------ file system
\* open(temp_path, "wb") by the run with number n: an existing file is
\* truncated in place, otherwise a new inode is created
OpenWb(d, path, n) == IF path \in DOMAIN d THEN d[path] ELSE n

\* shutil.move(temp_path, local_path) on one file system: os.rename
Rename(d, src, dst) ==
    [p \in ((DOMAIN d) \ {src}) \cup {dst} |-> IF p = dst THEN d[src] ELSE d[p]]

AllChunks == 1..NChunks

\* -------------------------------------------------------------- variables
VARIABLES
    gdrive,     \* GDRIVE_CREDENTIALS or GDRIVE_FOLDER_ID is set
    now,        \* the wall clock, in seconds
    ledger,     \* the rows of downloaded_reports
    dir,        \* the storage directory: path -> inode
    inodes,     \* inode -> set of chunks the file holds
    run,        \* per worker: the locals of its get_report call
    runs,       \* number of get_report calls begun
    hist,       \* arguments and response of the call that returned last
    renamed,    \* file names a rename has put in place
    probe       \* arguments and result of a direct call of already_downloaded

vars == <<gdrive, now, ledger, dir, inodes, run, runs, hist, renamed, probe>>

\* a worker that handles no request
Idle ==
    [pc |-> "idle", n |-> 0,
     application_id |-> "", report_id |-> "", request_render_id |-> "",
     attempt |-> 0, api_render_id |-> 0, is_ready |-> FALSE,
     file_name |-> NoName, file_path |-> NoPath, fd |-> 0, offset |-> 0,
     response |-> NoResponse,
     \* bookkeeping of what the call did
     statusCalls |-> 0, fetchCalls |-> 0, lookupErrors |-> {},
     heldByRequest |-> FALSE, heldByCanonical |-> FALSE,
     reply |-> NoReply, all404 |-> TRUE, allTransient |-> TRUE,
     remote |-> "none", failedAt |-> "none",
     moved |-> FALSE, wrote |-> FALSE, dbError |-> FALSE,
     prev |-> NoResponse]

NoHist == [application_id |-> "", report_id |-> "", request_render_id |-> "",
           response |-> NoResponse]

\* no direct call of already_downloaded was made
NoProbe == [op |-> "none", called |-> FALSE, application_id |-> "", report_id |-> "",
            request_render_id |-> PyNone, api_render_id |-> PyNone,
            raised |-> FALSE, result |-> Absent]

Init ==
    /\ gdrive \in BOOLEAN
    /\ now = 0
    /\ ledger = {}
    /\ dir = << >>
    /\ inodes = << >>
    /\ run = [w \in Workers |-> Idle]
    /\ runs = 0
    /\ hist = NoHist
    /\ renamed = {}
    /\ probe = NoProbe

\* worker w continues as rec; a call that returns is remembered in hist
Continue(w, rec) ==
    /\ run' = [run EXCEPT ![w] = rec]
    /\ hist' = IF rec.pc = "done"
               THEN [application_id |-> rec.application_id, report_id |-> rec.report_id,
                     request_render_id |-> rec.request_render_id, response |-> rec.response]
               ELSE hist

\* return jsonify(...)
Return(rec, response) == [rec EXCEPT !.pc = "done", !.response = response]

\* ------------------------------------------------------------- get_report
\* init_db() at the head of get_report.  The schema statements change no
\* row of a table that has the index already; cleanup_invalid_records runs
\* when they succeeded.  Either part can raise a sqlite3 error, which is
\* logged and leaves the rows as they are.
InitDb(rows, ok) == IF ok THEN CleanupInvalidRecords(rows) ELSE rows

\* lines 269-285: argument and token validation
Validate(r, has_token) ==
    IF r.request_render_id = "" THEN Return(r, BadRequest)
    ELSE IF ~has_token THEN Return(r, MissingToken)
    ELSE [r EXCEPT !.pc = "CHECK_BY_REQUEST_ID"]

\* lines 287-296: the decision on the lookup by request_render_id
AfterRequestLookup(r, cached) ==
    IF cached # Absent
    THEN Return(r, CachedResult(cached.file_name, r.request_render_id))
    ELSE [r EXCEPT !.pc = "CHECK_STATUS"]

\* AfterStatus with an attempt counter that wraps around below the bound:
\* a 404 is retried without end
AfterStatus_EndlessRetry(r, reply) ==
    LET r1 == [r EXCEPT !.statusCalls = IF @ < MaxAttempts THEN @ + 1 ELSE @,
                        !.reply = reply,
                        !.all404 = @ /\ reply.code = 404,
                        !.allTransient = @ /\ reply.code \in TransientCodes]
    IN  IF reply.kind = "exception" THEN Return(r1, InternalError)
        ELSE IF reply.code = 404 THEN [r1 EXCEPT !.attempt = (@ + 1) % 2]
        ELSE IF reply.code # 200 THEN Return(r1, UpstreamStatus(reply.code))
        ELSE IF reply.kind = "not_json" THEN Return(r1, InternalError)
        ELSE IF reply.id = 0 \/ ~reply.output_file THEN Return(r1, NoFileInfo)
        ELSE [r1 EXCEPT !.api_render_id = reply.id, !.is_ready = reply.is_ready,
                        !.pc = "CHECK_BY_CANONICAL_ID"]

\* AfterStatus retrying on every status other than 200
AfterStatus_RetryAll(r, reply) ==
    LET r1 == [r EXCEPT !.statusCalls = @ + 1, !.reply = reply,
                        !.all404 = @ /\ reply.code = 404,
                        !.allTransient = @ /\ reply.code \in TransientCodes]
    IN  IF reply.kind = "exception" THEN Return(r1, InternalError)
        ELSE IF reply.code # 200
             THEN IF r.attempt + 1 < MaxAttempts
                  THEN [r1 EXCEPT !.attempt = @ + 1]
                  ELSE Return([r1 EXCEPT !.attempt = @ + 1], NotFoundAfterRetries)
        ELSE IF reply.kind = "not_json" THEN Return(r1, InternalError)
        ELSE IF reply.id = 0 \/ ~reply.output_file THEN Return(r1, NoFileInfo)
        ELSE [r1 EXCEPT !.api_render_id = reply.id, !.is_ready = reply.is_ready,
                        !.pc = "CHECK_BY_CANONICAL_ID"]

\* AfterStatus answering "No report file info found" when the attempts are
\* used up
AfterStatus_SameNotFound(r, reply) ==
    LET r1 == [r EXCEPT !.statusCalls = @ + 1, !.reply = reply,
                        !.all404 = @ /\ reply.code = 404,
                        !.allTransient = @ /\ reply.code \in TransientCodes]
    IN  IF reply.kind = "exception" THEN Return(r1, InternalError)
        ELSE IF reply.code = 404
             THEN IF r.attempt + 1 < MaxAttempts
                  THEN [r1 EXCEPT !.attempt = @ + 1]
                  ELSE Return([r1 EXCEPT !.attempt = @ + 1], NoFileInfo)
        ELSE IF reply.code # 200 THEN Return(r1, UpstreamStatus(reply.code))
        ELSE IF reply.kind = "not_json" THEN Return(r1, InternalError)
        ELSE IF reply.id = 0 \/ ~reply.output_file THEN Return(r1, NoFileInfo)
        ELSE [r1 EXCEPT !.api_render_id = reply.id, !.is_ready = reply.is_ready,
                        !.pc = "CHECK_BY_CANONICAL_ID"]

\* AfterStatus with the loop running one iteration too many
AfterStatus_OffByOne(r, reply) ==
    LET r1 == [r EXCEPT !.statusCalls = @ + 1, !.reply = reply,
                        !.all404 = @ /\ reply.code = 404,
                        !.allTransient = @ /\ reply.code \in TransientCodes]
    IN  IF reply.kind = "exception" THEN Return(r1, InternalError)
        ELSE IF reply.code = 404
             THEN IF r.attempt + 1 <= MaxAttempts
                  THEN [r1 EXCEPT !.attempt = @ + 1]
                  ELSE Return([r1 EXCEPT !.attempt = @ + 1], NotFoundAfterRetries)
        ELSE IF reply.code # 200 THEN Return(r1, UpstreamStatus(reply.code))
        ELSE IF reply.kind = "not_json" THEN Return(r1, InternalError)
        ELSE IF reply.id = 0 \/ ~reply.output_file THEN Return(r1, NoFileInfo)
        ELSE [r1 EXCEPT !.api_render_id = reply.id, !.is_ready = reply.is_ready,
                        !.pc = "CHECK_BY_CANONICAL_ID"]

\* lines 302-318 and 347-349: one iteration of the retry loop
AfterStatus(r, reply) ==
    LET r1 == [r EXCEPT !.statusCalls = @ + 1, !.reply = reply,
                        !.all404 = @ /\ reply.code = 404,
                        !.allTransient = @ /\ reply.code \in TransientCodes]
    IN  IF reply.kind = "exception" THEN Return(r1, InternalError)
        ELSE IF reply.code = 404
             THEN IF r.attempt + 1 < MaxAttempts
                  THEN [r1 EXCEPT !.attempt = @ + 1]
                  ELSE Return([r1 EXCEPT !.attempt = @ + 1], NotFoundAfterRetries)
        ELSE IF reply.code # 200 THEN Return(r1, UpstreamStatus(reply.code))
        ELSE IF reply.kind = "not_json" THEN Return(r1, InternalError)
        ELSE IF reply.id = 0 \/ ~reply.output_file THEN Return(r1, NoFileInfo)
        ELSE [r1 EXCEPT !.api_render_id = reply.id, !.is_ready = reply.is_ready,
                        !.pc = "CHECK_BY_CANONICAL_ID"]

\* AfterCanonicalLookup with is_ready tested before the cached record
AfterCanonicalLookup_ReadyFirst(r, cached, ts, gd) ==
    IF r.is_ready
    THEN [r EXCEPT !.file_name = FileName(r.application_id, r.report_id,
                                          r.api_render_id, ts),
                   !.pc = IF gd THEN "PERSIST_REMOTE" ELSE "PERSIST_LOCAL"]
    ELSE IF cached # Absent
         THEN Return(r, CachedResult(cached.file_name, IntStr(r.api_render_id)))
         ELSE Return(r, NotReadyYet)

\* AfterCanonicalLookup without the test of is_ready
AfterCanonicalLookup_NoReadyTest(r, cached, ts, gd) ==
    IF cached # Absent
    THEN Return(r, CachedResult(cached.file_name, IntStr(r.api_render_id)))
    ELSE [r EXCEPT !.file_name = FileName(r.application_id, r.report_id,
                                          r.api_render_id, ts),
                   !.pc = IF gd THEN "PERSIST_REMOTE" ELSE "PERSIST_LOCAL"]

\* lines 320-333 and 346: the decision on the lookup by api_render_id, and
\* the file name derived from the clock when the artifact is to be fetched
AfterCanonicalLookup(r, cached, ts, gd) ==
    IF cached # Absent
    THEN Return(r, CachedResult(cached.file_name, IntStr(r.api_render_id)))
    ELSE IF r.is_ready
         THEN [r EXCEPT !.file_name = FileName(r.application_id, r.report_id,
                                               r.api_render_id, ts),
                        !.pc = IF gd THEN "PERSIST_REMOTE" ELSE "PERSIST_LOCAL"]
         ELSE Return(r, NotReadyYet)

\* LookupFailed with the exception of the query reaching the handler
LookupFailed_Raises(r, which, ts, gd) ==
    Return([r EXCEPT !.lookupErrors = @ \cup {which}], InternalError)

\* lines 203-205: already_downloaded catches the exception of its query
\* and returns None; the caller goes on as on a miss
LookupFailed(r, which, ts, gd) ==
    LET r1 == [r EXCEPT !.lookupErrors = @ \cup {which}]
    IN  IF which = "request" THEN AfterRequestLookup(r1, Absent)
        ELSE AfterCanonicalLookup(r1, Absent, ts, gd)

\* AfterGdrive taking the link without looking at the outcome
AfterGdrive_NoCheck(r, outcome) ==
    [r EXCEPT !.fetchCalls = @ + 1, !.remote = outcome,
              !.file_path = GdriveLink(r.file_name, r.n), !.pc = "UPSERT"]

\* lines 225-228 with save_to_gdrive (79-105): the source is fetched, then
\* uploaded; any failure yields None and the local backend is tried
AfterGdrive(r, outcome) ==
    LET r1 == [r EXCEPT !.fetchCalls = @ + 1, !.remote = outcome]
    IN  IF outcome = "ok"
        THEN [r1 EXCEPT !.file_path = GdriveLink(r.file_name, r.n), !.pc = "UPSERT"]
        ELSE [r1 EXCEPT !.pc = "PERSIST_LOCAL"]

\* PersistFailed without the test "if not file_path": the run goes on to
\* save_to_db
PersistFailed_StillSaves(r, stage) == [r EXCEPT !.failedAt = stage, !.pc = "UPSERT"]

\* lines 261-263 and 335-336: save_file_locally returns None, get_report
\* answers 500 without calling save_to_db
PersistFailed(r, stage) == Return([r EXCEPT !.failedAt = stage], SaveFailed)

\* lines 337-345: save_to_db (which logs and swallows its exception), then
\* the result of a fresh fetch
AfterSaveToDb(r, stored) ==
    Return([r EXCEPT !.wrote = stored, !.dbError = ~stored],
           FreshResult(r.file_name, IntStr(r.api_render_id)))

\* ---------------------------------------------------------------- actions
\* A request arrives: init_db, validation.  prev is the result of the call
\* that returned last, when that call had the same arguments and credential
\* and returned one of the 200 results.
Begin(w) ==
    /\ run[w].pc \in {"idle", "done"}
    /\ \A i, j \in DOMAIN Pool :
         (i < j /\ Pool[j] = w) => run[Pool[i]].pc \notin {"idle", "done"}
    /\ runs < MaxRuns
    /\ runs' = runs + 1
    /\ \E app \in FirstOr(runs, "6", Apps), rep \in Reports,
          req \in FirstOr(runs, "1", ReqIds) \cup {""},
          has_token \in BOOLEAN, db_ok \in BOOLEAN :
         /\ ledger' = InitDb(ledger, db_ok)
         /\ Continue(w, Validate(
                [Idle EXCEPT !.n = runs + 1, !.application_id = app,
                             !.report_id = rep, !.request_render_id = req,
                             !.prev = IF /\ hist.application_id = app
                                         /\ hist.report_id = rep
                                         /\ hist.request_render_id = req
                                         /\ hist.response.status = 200
                                         /\ has_token
                                      THEN hist.response ELSE NoResponse],
                has_token))
    /\ UNCHANGED <<gdrive, now, dir, inodes, renamed, probe>>

\* CHECK_BY_REQUEST_ID: already_downloaded(request_render_id=...)
CheckByRequestId(w) ==
    /\ run[w].pc = "CHECK_BY_REQUEST_ID"
    /\ LET r == [run[w] EXCEPT !.heldByRequest =
                   MatchingRows(ledger, run[w].application_id, run[w].report_id,
                                run[w].request_render_id, PyNone) # {}]
       IN  \/ \E cached \in AlreadyDownloaded(ledger, r.application_id, r.report_id,
                                              r.request_render_id, PyNone) :
                Continue(w, AfterRequestLookup(r, cached))
           \/ /\ MatchingRows(ledger, r.application_id, r.report_id,
                                r.request_render_id, PyNone) # {}
              /\ Continue(w, LookupFailed(r, "request", now, gdrive))
    /\ UNCHANGED <<gdrive, now, ledger, dir, inodes, runs, renamed, probe>>

\* CHECK_STATUS: one call of the status endpoint
CheckStatus(w) ==
    /\ run[w].pc = "CHECK_STATUS"
    /\ \E reply \in StatusReplies : Continue(w, AfterStatus(run[w], reply))
    /\ UNCHANGED <<gdrive, now, ledger, dir, inodes, runs, renamed, probe>>

\* CHECK_BY_CANONICAL_ID: already_downloaded(api_render_id=str(api_render_id))
CheckByCanonicalId(w) ==
    /\ run[w].pc = "CHECK_BY_CANONICAL_ID"
    /\ LET r == [run[w] EXCEPT !.heldByCanonical =
                   MatchingRows(ledger, run[w].application_id, run[w].report_id,
                                PyNone, IntStr(run[w].api_render_id)) # {}]
       IN  \/ \E cached \in AlreadyDownloaded(ledger, r.application_id, r.report_id,
                                              PyNone, IntStr(r.api_render_id)) :
                Continue(w, AfterCanonicalLookup(r, cached, now, gdrive))
           \/ /\ MatchingRows(ledger, r.application_id, r.report_id,
                                PyNone, IntStr(r.api_render_id)) # {}
              /\ Continue(w, LookupFailed(r, "canonical", now, gdrive))
    /\ UNCHANGED <<gdrive, now, ledger, dir, inodes, runs, renamed, probe>>

\* save_to_gdrive
SaveToGdrive(w) ==
    /\ run[w].pc = "PERSIST_REMOTE"
    /\ \E outcome \in {"ok", "fetch_failed", "upload_failed"} :
         Continue(w, AfterGdrive(run[w], outcome))
    /\ UNCHANGED <<gdrive, now, ledger, dir, inodes, runs, renamed, probe>>

\* save_file_locally, lines 231-253: fetch the source, open the temp file
OpenTemp(w) ==
    /\ run[w].pc = "PERSIST_LOCAL"
    /\ LET r == [run[w] EXCEPT !.fetchCalls = @ + 1]
           tmp == TempPath(r.file_name)
           ino == OpenWb(dir, tmp, r.n)
       IN  \/ /\ Continue(w, [r EXCEPT !.fd = ino, !.offset = 0, !.pc = "WRITE"])
              /\ dir' = [p \in (DOMAIN dir) \cup {tmp} |-> IF p = tmp THEN ino ELSE dir[p]]
              /\ inodes' = [i \in (DOMAIN inodes) \cup {ino} |->
                              IF i = ino THEN {} ELSE inodes[i]]
           \/ /\ \E stage \in {"fetch", "write"} : Continue(w, PersistFailed(r, stage))
              /\ UNCHANGED <<dir, inodes>>
    /\ UNCHANGED <<gdrive, now, ledger, runs, renamed, probe>>

\* lines 254-256: one chunk of the stream is written at this writer's offset
WriteChunk(w) ==
    /\ run[w].pc = "WRITE"
    /\ LET r == run[w]
       IN  \/ /\ Continue(w, [r EXCEPT !.offset = @ + 1,
                                       !.pc = IF r.offset + 1 = NChunks
                                              THEN "MOVE" ELSE "WRITE"])
              /\ inodes' = [inodes EXCEPT ![r.fd] = @ \cup {r.offset + 1}]
           \/ /\ \E stage \in {"fetch", "write"} : Continue(w, PersistFailed(r, stage))
              /\ UNCHANGED inodes
    /\ UNCHANGED <<gdrive, now, ledger, dir, runs, renamed, probe>>

\* lines 258-260: shutil.move(temp_path, local_path)
Move(w) ==
    /\ run[w].pc = "MOVE"
    /\ LET r == run[w]
           tmp == TempPath(r.file_name)
       IN  \/ /\ tmp \in DOMAIN dir
              /\ dir' = Rename(dir, tmp, LocalPath(r.file_name))
              /\ renamed' = renamed \cup {r.file_name}
              /\ Continue(w, [r EXCEPT !.file_path = LocalPath(r.file_name),
                                       !.moved = TRUE, !.pc = "UPSERT"])
           \/ /\ Continue(w, PersistFailed(r, "move"))
              /\ UNCHANGED <<dir, renamed>>
    /\ UNCHANGED <<gdrive, now, ledger, inodes, runs, probe>>

\* line 337: save_to_db, and the return of the fresh result
Upsert(w) ==
    /\ run[w].pc = "UPSERT"
    /\ LET r == run[w]
       IN  \/ /\ ledger' = SaveToDb(ledger, r.application_id, r.report_id,
                                    r.request_render_id, IntStr(r.api_render_id),
                                    r.file_name, r.file_path, now)
              /\ Continue(w, AfterSaveToDb(r, TRUE))
           \/ /\ UNCHANGED ledger
              /\ Continue(w, AfterSaveToDb(r, FALSE))
    /\ UNCHANGED <<gdrive, now, dir, inodes, runs, renamed, probe>>

\* a second passes
Tick ==
    /\ now < MaxTime
    /\ now' = now + 1
    /\ UNCHANGED <<gdrive, ledger, dir, inodes, run, runs, hist, renamed, probe>>

Next ==
    \/ \E w \in Workers : Begin(w)
    \/ \E w \in Workers : CheckByRequestId(w)
    \/ \E w \in Workers : CheckStatus(w)
    \/ \E w \in Workers : CheckByCanonicalId(w)
    \/ \E w \in Workers : SaveToGdrive(w)
    \/ \E w \in Workers : OpenTemp(w)
    \/ \E w \in Workers : WriteChunk(w)
    \/ \E w \in Workers : Move(w)
    \/ \E w \in Workers : Upsert(w)
    \/ Tick

Spec == Init /\ [][Next]_vars

\* ------------------------------------------------------------ scheduling
\* a step of the request worker w is handling
StepOf(w) ==
    \/ CheckByRequestId(w)
    \/ CheckStatus(w)
    \/ CheckByCanonicalId(w)
    \/ SaveToGdrive(w)
    \/ OpenTemp(w)
    \/ WriteChunk(w)
    \/ Move(w)
    \/ Upsert(w)

\* Each request runs on its own thread, which waits for no other worker;
\* its HTTP calls carry timeout=30 and sqlite3 gives up on a locked
\* database after its busy timeout, so a handler that can take a step
\* takes it.  The progress of one handler is examined with the requests
\* served one after the other by the first worker: what other workers do
\* reaches a handler only through the ledger and the directory, which the
\* requests served before it have filled.
NextLive ==
    \/ Begin(Pool[1])
    \/ StepOf(Pool[1])
    \/ Tick

SpecLive == Init /\ [][NextLive]_vars /\ WF_vars(StepOf(Pool[1]))

\* ------------------------------------------- already_downloaded on its own
\* The ledger is filled by calls of save_to_db with arbitrary arguments and
\* already_downloaded is called with arbitrary arguments; probe holds the
\* arguments and the result of the last call.
InitLookup ==
    /\ gdrive = FALSE
    /\ now = 0
    /\ ledger = {}
    /\ dir = << >>
    /\ inodes = << >>
    /\ run = [w \in Workers |-> Idle]
    /\ runs = 0
    /\ hist = NoHist
    /\ renamed = {}
    /\ probe = NoProbe

\* save_to_db(application_id, report_id, request_render_id, api_render_id,
\* file_name, file_path) with the arguments get_report builds at line 337
ProbeSave ==
    /\ \E application_id \in Apps, report_id \in Reports, request_render_id \in ReqIds,
          id \in ApiIds \ {0} :
         LET api_render_id == IntStr(id)
             file_name == FileName(application_id, report_id, id, now)
             rows == SaveToDb(ledger, application_id, report_id, request_render_id,
                              api_render_id, file_name, LocalPath(file_name), now)
         IN  /\ Cardinality(rows) <= MaxRows
             /\ ledger' = rows
    /\ probe' = [NoProbe EXCEPT !.op = "save_to_db"]
    /\ UNCHANGED <<gdrive, now, dir, inodes, run, runs, hist, renamed>>

\* init_db() as get_report calls it on entry (line 268); ok is FALSE when
\* it raised before or in cleanup_invalid_records
ProbeInitDb ==
    /\ \E ok \in BOOLEAN :
         /\ ledger' = InitDb(ledger, ok)
         /\ probe' = [NoProbe EXCEPT !.op = "init_db", !.raised = ~ok]
    /\ UNCHANGED <<gdrive, now, dir, inodes, run, runs, hist, renamed>>

\* already_downloaded(application_id, report_id, request_render_id,
\* api_render_id), either id given or left None; the query may raise
ProbeLookup ==
    /\ \E application_id \in Apps, report_id \in Reports,
          request_render_id \in ReqIds \cup {PyNone},
          api_render_id \in {IntStr(id) : id \in ApiIds \ {0}} \cup {PyNone},
          raised \in BOOLEAN :
         \E result \in IF raised THEN {Absent}
                       ELSE AlreadyDownloaded(ledger, application_id, report_id,
                                              request_render_id, api_render_id) :
            probe' = [op |-> "already_downloaded", called |-> TRUE, application_id |-> application_id,
                      report_id |-> report_id,
                      request_render_id |-> request_render_id,
                      api_render_id |-> api_render_id,
                      raised |-> raised, result |-> result]
    /\ UNCHANGED <<gdrive, now, ledger, dir, inodes, run, runs, hist, renamed>>

NextLookup ==
    \/ ProbeSave
    \/ ProbeInitDb
    \/ ProbeLookup
    \/ Tick

SpecLookup == InitLookup /\ [][NextLookup]_vars

\* ------------------------------------------------------------ vocabulary
Done(w) == run[w].pc = "done"

\* the call returned one of the two success results
IsCached(resp) == resp.message = "Report already processed"

IsFresh(resp) == resp.message = "File saved successfully"

\* the status body was well formed (id and outputFile present)
StatusOk(r) == r.reply.kind = "json" /\ r.reply.id # 0 /\ r.reply.output_file

\* the responses of the exits get_report takes on a failure it does not
\* retry: the exception handler, a non-200 status, a body without file
\* info, a failed save
HardFailures ==
    {InternalError, SaveFailed, NoFileInfo} \cup {UpstreamStatus(c) : c \in ErrorCodes}

\* ------------------------------------------------------------------- C1
\* C1 (as claimed): a get_report call that begins after a call with the same
\* arguments returned the fresh result "File saved successfully", and whose
\* own ledger lookups raise no error, returns the same file name as a
\* cached result, with no status call and no artifact fetch.
C1_Idempotence ==
    \A w \in Workers :
        (Done(w) /\ IsFresh(run[w].prev) /\ run[w].lookupErrors = {}) =>
            /\ IsCached(run[w].response)
            /\ run[w].response.file_name = run[w].prev.file_name
            /\ run[w].statusCalls = 0
            /\ run[w].fetchCalls = 0

\* ------------------------------------------------------------------- C2
\* C2 (as claimed): when the ledger holds a record for the canonical id but
\* none for the request render id and the status says ready, the run
\* returns an existing record for the canonical id, fetches nothing and
\* writes nothing.
C2_CanonicalPrecedence_AsClaimed ==
    \A w \in Workers :
        LET r == run[w] IN
        (r.heldByCanonical /\ ~r.heldByRequest /\ r.is_ready) =>
            /\ Done(w)
            /\ IsCached(r.response)
            /\ \E row \in ledger : /\ row.file_name = r.response.file_name
                                   /\ row.application_id = r.application_id
                                   /\ row.report_id = r.report_id
                                   /\ row.api_render_id = IntStr(r.api_render_id)
            /\ r.fetchCalls = 0
            /\ ~r.wrote

\* C2 (amended): the same, for a run whose lookup by canonical id raises no
\* storage error.
C2_CanonicalPrecedence ==
    \A w \in Workers :
        LET r == run[w] IN
        (r.heldByCanonical /\ ~r.heldByRequest /\ r.is_ready
            /\ "canonical" \notin r.lookupErrors) =>
            /\ Done(w)
            /\ IsCached(r.response)
            /\ \E row \in ledger : /\ row.file_name = r.response.file_name
                                   /\ row.application_id = r.application_id
                                   /\ row.report_id = r.report_id
                                   /\ row.api_render_id = IntStr(r.api_render_id)
            /\ r.fetchCalls = 0
            /\ ~r.wrote

\* a run met a record of its canonical id written for another request
\* render id, with the status ready, and returned it
C2_Witness ==
    \E w \in Workers :
        /\ Done(w) /\ run[w].heldByCanonical /\ ~run[w].heldByRequest
        /\ run[w].is_ready /\ run[w].lookupErrors = {}
        /\ IsCached(run[w].response)
        /\ \E row \in ledger : /\ row.file_name = run[w].response.file_name
                               /\ row.request_render_id # run[w].request_render_id

\* ------------------------------------------------------------------- C3
\* C3 (as claimed): a run whose status reply says isReady=false writes no
\* ledger record, fetches no artifact and returns no success result: it
\* reports not-ready, and so does a later identical call.
C3_NotReady_AsClaimed ==
    \A w \in Workers :
        LET r == run[w] IN
        (StatusOk(r) /\ ~r.reply.is_ready) =>
            /\ ~r.wrote
            /\ r.fetchCalls = 0
            /\ Done(w) => r.response = NotReadyYet

\* C3 (amended): a run whose status reply says isReady=false writes no
\* ledger record and fetches no artifact; it reports not-ready unless its
\* lookup by the returned canonical id finds a record, which it then
\* returns as a cached result.  The same holds of a later identical call.
C3_NotReady ==
    \A w \in Workers :
        LET r == run[w] IN
        (StatusOk(r) /\ ~r.reply.is_ready) =>
            /\ ~r.wrote
            /\ r.fetchCalls = 0
            /\ Done(w) =>
                 \/ r.response = NotReadyYet
                 \/ /\ r.heldByCanonical
                    /\ IsCached(r.response)
                    /\ r.response.file_name.api = IntStr(r.api_render_id)
            /\ (Done(w) /\ (~r.heldByCanonical \/ "canonical" \in r.lookupErrors))
                 => r.response = NotReadyYet

\* a call reported not-ready, and the identical call after it does again
C3_Witness ==
    \E w \in Workers :
        /\ Done(w) /\ StatusOk(run[w]) /\ ~run[w].reply.is_ready
        /\ run[w].response = NotReadyYet
        /\ run[w].prev = NotReadyYet

\* ------------------------------------------------------------------- C4
\* C4 (as claimed): no run makes more than MaxAttempts status calls; a run
\* whose every status call returns a transient failure (404 or 5xx) is
\* still in the retry loop with fewer than MaxAttempts calls made, or has
\* made exactly MaxAttempts calls and returned "Render not found after
\* retries", which is none of the responses of a hard failure, without a
\* fetch or a ledger write.
C4_TransientRetryBound ==
    \A w \in Workers :
        LET r == run[w] IN
        /\ r.statusCalls <= MaxAttempts
        /\ (r.statusCalls > 0 /\ r.allTransient) =>
             /\ r.fetchCalls = 0 /\ ~r.wrote
             /\ IF Done(w)
                THEN /\ r.statusCalls = MaxAttempts
                     /\ r.response = NotFoundAfterRetries
                     /\ r.response \notin HardFailures
                ELSE r.pc = "CHECK_STATUS" /\ r.statusCalls < MaxAttempts

\* C4 for the one transient status the loop retries: the same statement
\* for a run whose every status call returns 404.
C4_RetryBound404 ==
    \A w \in Workers :
        LET r == run[w] IN
        /\ r.statusCalls <= MaxAttempts
        /\ (r.statusCalls > 0 /\ r.all404) =>
             /\ r.fetchCalls = 0 /\ ~r.wrote
             /\ IF Done(w)
                THEN /\ r.statusCalls = MaxAttempts
                     /\ r.response = NotFoundAfterRetries
                     /\ r.response \notin HardFailures
                ELSE r.pc = "CHECK_STATUS" /\ r.statusCalls < MaxAttempts

\* a run gave up after MaxAttempts 404 replies
C4_Witness404 ==
    \E w \in Workers :
        /\ Done(w) /\ run[w].all404 /\ run[w].statusCalls = MaxAttempts
        /\ run[w].response = NotFoundAfterRetries

\* ------------------------------------------------------------------- C5
\* C5: a run of the local backend that fails at the move, after the temp
\* file was written, has renamed nothing, wrote no ledger row and answers
\* "Failed to save file"; a file is visible at a final path only if a
\* rename put it there; a run of the local backend reaches save_to_db only
\* after its rename, and every ledger row with a local path names a file a
\* rename has put in place.
C5_AtomicLocalWrite ==
    /\ \A w \in Workers :
        LET r == run[w] IN
        /\ r.failedAt = "move" =>
             /\ Done(w) /\ r.response = SaveFailed
             /\ ~r.moved /\ ~r.wrote /\ r.file_path = NoPath
        /\ ((r.pc = "UPSERT" \/ r.wrote) /\ r.file_path.kind = "local") =>
             /\ r.moved
             /\ r.file_path = LocalPath(r.file_name)
             /\ r.file_path \in DOMAIN dir
    /\ \A p \in DOMAIN dir : p.kind = "local" => p.name \in renamed
    /\ \A row \in ledger : row.file_path.kind = "local" => row.file_name \in renamed

\* a run failed at the move with its temp file fully written: the temp
\* file is there, the final path is not, the ledger has no row for the name
C5_Witness ==
    \E w \in Workers :
        LET r == run[w] IN
        /\ Done(w) /\ r.failedAt = "move" /\ r.offset = NChunks
        /\ TempPath(r.file_name) \in DOMAIN dir
        /\ inodes[dir[TempPath(r.file_name)]] = AllChunks
        /\ LocalPath(r.file_name) \notin DOMAIN dir
        /\ \A row \in ledger : row.file_name # r.file_name

\* ------------------------------------------------------------------- C6
\* C6: in every reachable state the ledger holds at most one row per
\* (application_id, report_id, api_render_id, file_name).
C6_LedgerUnique ==
    \A r1, r2 \in ledger : UniqueKey(r1) = UniqueKey(r2) => r1 = r2

\* two workers ran concurrently, both called save_to_db with success for
\* the same key, and the ledger holds a row of that key
C6_Witness ==
    \E w, v \in Workers :
        /\ w # v /\ Done(w) /\ Done(v) /\ run[w].wrote /\ run[v].wrote
        /\ run[w].application_id = run[v].application_id
        /\ run[w].report_id = run[v].report_id
        /\ run[w].api_render_id = run[v].api_render_id
        /\ run[w].file_name = run[v].file_name
        /\ \E row \in ledger : row.file_name = run[w].file_name

\* ------------------------------------------------------------------- C7
\* the rows C7 selects for the last call of already_downloaded: same
\* application_id and report_id, and the canonical id when one was given,
\* the request render id otherwise
C7_Selected ==
    {r \in ledger : /\ r.application_id = probe.application_id
                    /\ r.report_id = probe.report_id
                    /\ IF probe.api_render_id # PyNone
                       THEN r.api_render_id = probe.api_render_id
                       ELSE r.request_render_id = probe.request_render_id}

\* C7 (as claimed): already_downloaded returns a record exactly when the
\* ledger holds a row with the same application_id, report_id and the
\* selected id (the canonical id when supplied, the request render id
\* otherwise), the record is one of those rows, and it returns absent
\* otherwise.
C7_LookupPrecedence_AsClaimed ==
    probe.called =>
        /\ (probe.result # Absent) <=> (C7_Selected # {})
        /\ probe.result # Absent =>
             \E r \in C7_Selected :
                probe.result = [file_name |-> r.file_name, file_path |-> r.file_path]

\* C7: when its query raises no storage error, already_downloaded returns
\* a record exactly when the ledger holds a row with the same
\* application_id, report_id and the selected id (the canonical id when
\* supplied, ignoring the request render id; the request render id
\* otherwise), that record being a newest such row; when the query raises
\* it returns absent.
C7_LookupPrecedence ==
    probe.called =>
        IF probe.raised THEN probe.result = Absent
        ELSE /\ (probe.result # Absent) <=> (C7_Selected # {})
             /\ probe.result # Absent =>
                  \E r \in C7_Selected :
                     /\ probe.result = [file_name |-> r.file_name, file_path |-> r.file_path]
                     /\ \A q \in C7_Selected : q.downloaded_at <= r.downloaded_at

\* both ids were given, the ledger holds a row for the canonical id under
\* another request render id and a row for the request render id under
\* another canonical id: the row of the canonical id was returned
C7_Witness ==
    /\ probe.called /\ ~probe.raised
    /\ probe.request_render_id # PyNone /\ probe.api_render_id # PyNone
    /\ \E r, q \in ledger :
         /\ r \in C7_Selected /\ r.request_render_id # probe.request_render_id
         /\ q \notin C7_Selected /\ q.request_render_id = probe.request_render_id
         /\ q.application_id = probe.application_id
         /\ probe.result = [file_name |-> r.file_name, file_path |-> r.file_path]

\* ------------------------------------------------------------------- C8
\* C8: a run whose persist failed (the source fetch or the write of every
\* backend it tried) answers "Failed to save file" and wrote no ledger row;
\* a run calls save_to_db only with the location a backend returned (the
\* link of a successful upload, or the path its rename put in place), and
\* no ledger row is without a location.
C8_NoRecordOnPersistFailure ==
    /\ \A w \in Workers :
        LET r == run[w] IN
        /\ r.failedAt # "none" =>
             /\ Done(w) /\ r.response = SaveFailed
             /\ ~r.wrote /\ ~r.dbError /\ r.file_path = NoPath
        /\ (r.pc = "UPSERT" \/ r.wrote \/ r.dbError) =>
             \/ r.file_path = GdriveLink(r.file_name, r.n) /\ r.remote = "ok"
             \/ r.file_path = LocalPath(r.file_name) /\ r.moved
        /\ (Done(w) /\ IsFresh(r.response)) => r.file_path # NoPath
    /\ \A row \in ledger : row.file_path.kind \in {"local", "gdrive"}

\* the remote upload failed, then the local write failed: the run answered
\* "Failed to save file" and the ledger has no row for the name
C8_Witness ==
    \E w \in Workers :
        LET r == run[w] IN
        /\ Done(w) /\ r.remote = "upload_failed" /\ r.failedAt = "write"
        /\ r.response = SaveFailed
        /\ \A row \in ledger : row.file_name # r.file_name

\* ------------------------------------------------------------------- C9
\* the run ended on a "try again later" condition: its status reply said
\* isReady=false and no cached record was found, or every status call
\* answered 404 until the attempts were used up
TryAgainLater(r) ==
    /\ r.pc = "done"
    /\ \/ StatusOk(r) /\ ~r.reply.is_ready /\ ~IsCached(r.response)
       \/ r.all404 /\ r.statusCalls = MaxAttempts

\* the run ended on a "cannot succeed as given" condition: its last status
\* reply was a 401 or 403, or a 200 whose body is no JSON object or lacks
\* the id or the output file
CannotSucceed(r) ==
    /\ r.pc = "done"
    /\ \/ r.reply.kind = "http" /\ r.reply.code \in {401, 403}
       \/ r.reply.kind = "not_json"
       \/ r.reply.kind = "json" /\ ~StatusOk(r)

\* C9: the response of a run that ended on a "try again later" condition
\* differs (in HTTP status or in the text of the body) from the response of
\* every run that ended on a "cannot succeed as given" condition.
C9_Distinguishable ==
    \A w, v \in Workers :
        (TryAgainLater(run[w]) /\ CannotSucceed(run[v])) =>
            /\ run[w].response # run[v].response
            /\ <<run[w].response.status, run[w].response.error, run[w].response.message>>
                 # <<run[v].response.status, run[v].response.error, run[v].response.message>>

\* one run used up its attempts, another got a body without file info:
\* both answer 404, with different error texts
C9_Witness ==
    \E w, v \in Workers :
        /\ TryAgainLater(run[w]) /\ run[w].all404
        /\ CannotSucceed(run[v]) /\ run[v].reply.kind = "json"
        /\ run[w].response.status = run[v].response.status

\* ------------------------------------------------------------------ C10
\* C10: a run whose lookup by request render id raised went on to
\* CHECK_STATUS (it is there, or has made a status call) and did not end on
\* that lookup; a run whose lookup by canonical id raised went on to the
\* isReady decision: fetch-and-persist when ready, "Report not ready yet"
\* otherwise; neither ends with the 500 of the exception handler because of
\* the lookup.
C10_LookupFailureIsMiss ==
    \A w \in Workers :
        LET r == run[w] IN
        /\ "request" \in r.lookupErrors =>
             /\ r.pc # "CHECK_BY_REQUEST_ID"
             /\ r.pc = "CHECK_STATUS" \/ r.statusCalls >= 1
        /\ "canonical" \in r.lookupErrors =>
             /\ StatusOk(r)
             /\ IF r.is_ready
                THEN \/ r.pc \in {"PERSIST_REMOTE", "PERSIST_LOCAL", "WRITE", "MOVE", "UPSERT"}
                     \/ Done(w) /\ (IsFresh(r.response) \/ r.response = SaveFailed)
                ELSE Done(w) /\ r.response = NotReadyYet

\* a run whose two lookups both raised while the ledger held matching rows
\* fetched the artifact again and returned the fresh result
C10_Witness ==
    \E w \in Workers :
        /\ Done(w) /\ run[w].lookupErrors = {"request", "canonical"}
        /\ run[w].heldByRequest /\ run[w].heldByCanonical
        /\ IsFresh(run[w].response)

\* ------------------------------------------------------------------ C11
\* C11: no call of init_db (with cleanup_invalid_records) and no call of
\* save_to_db removes a ledger row: every row is there after the step with
\* the same id, unique key and request render id, and its file_path and
\* downloaded_at differ only when the step is an upsert on its unique key.
C11_NeverDeleted ==
    [][\A r \in ledger :
          \E q \in ledger' :
             /\ q.id = r.id /\ UniqueKey(q) = UniqueKey(r)
             /\ q.request_render_id = r.request_render_id
             /\ \/ q = r
                \/ \E request_render_id \in ReqIds :
                      ledger' = SaveToDb(ledger, r.application_id, r.report_id,
                                         request_render_id, r.api_render_id,
                                         r.file_name, q.file_path, q.downloaded_at)]_vars

\* init_db has run its cleanup on a ledger that holds two rows of one
\* render, saved under different file names, and both are there
C11_Witness ==
    /\ probe.op = "init_db" /\ ~probe.raised
    /\ \E r, q \in ledger :
         /\ r.application_id = q.application_id /\ r.report_id = q.report_id
         /\ r.api_render_id = q.api_render_id /\ r.file_name # q.file_name

\* ------------------------------------------------------------------ C12
\* C12: a run whose last status reply is a 5xx is not ended by it: it is
\* in CHECK_STATUS for the next attempt, or it has used up its MaxAttempts
\* calls and answered "Render not found after retries", as after a 404.
C12_Retry5xx ==
    \A w \in Workers :
        LET r == run[w] IN
        (r.reply.kind = "http" /\ r.reply.code >= 500) =>
            IF Done(w)
            THEN r.statusCalls = MaxAttempts /\ r.response = NotFoundAfterRetries
            ELSE r.pc = "CHECK_STATUS"

\* ------------------------------------------------------------------ C13
\* the status reply is one of the fatal outcomes: 401/403, another 4xx
\* that is not 404, or a 200 whose body lacks the id or the output file
FatalReply(reply) ==
    \/ reply.kind = "http" /\ reply.code >= 400 /\ reply.code < 500 /\ reply.code # 404
    \/ reply.kind = "json" /\ (reply.id = 0 \/ ~reply.output_file)

\* C13: a run whose status call returned a fatal outcome ended on that
\* reply (it is the run's last status call), with the upstream status or
\* with "No report file info found", having fetched nothing, derived no
\* file name and written no ledger row.
C13_FatalNotRetried ==
    \A w \in Workers :
        LET r == run[w] IN
        FatalReply(r.reply) =>
            /\ Done(w)
            /\ r.response = IF r.reply.kind = "http"
                            THEN UpstreamStatus(r.reply.code) ELSE NoFileInfo
            /\ r.fetchCalls = 0 /\ r.file_name = NoName
            /\ ~r.wrote /\ ~r.dbError

\* a run was answered 404, then 403, and ended with the 403
C13_Witness ==
    \E w \in Workers :
        /\ Done(w) /\ run[w].statusCalls = 2 /\ run[w].attempt = 1
        /\ run[w].reply.kind = "http" /\ run[w].reply.code = 403
        /\ run[w].response = UpstreamStatus(403)

\* ------------------------------------------------------------------ C14
\* C14: a run whose persist failed in the fetch of the source has not
\* answered "Failed to save file" but gone to one more status check; a run
\* whose persist failed in the write or the move has answered "Failed to
\* save file"; the responses of the two kinds of run differ.
C14_FetchFailureRechecks ==
    /\ \A w \in Workers :
        LET r == run[w] IN
        /\ r.failedAt = "fetch" => ~(Done(w) /\ r.response = SaveFailed)
        /\ r.failedAt \in {"write", "move"} => (Done(w) /\ r.response = SaveFailed)
    /\ \A w, v \in Workers :
        (/\ Done(w) /\ Done(v)
         /\ run[w].failedAt = "fetch" /\ run[v].failedAt \in {"write", "move"})
            => run[w].response # run[v].response

\* ------------------------------------------------------------------ C15
\* the local backend has been entered by the run
LocalTried(r) ==
    \/ r.pc \in {"PERSIST_LOCAL", "WRITE", "MOVE"}
    \/ r.moved
    \/ r.failedAt # "none"

\* C15: a run that persists tries the remote backend first whenever it is
\* configured, and never when it is not; an upload that succeeded gives the
\* run the link as its location, after one fetch and without the local
\* backend; the local backend is entered exactly when the remote one is
\* not configured or its attempt failed, and its rename gives the local
\* path as the location; "Failed to save file" is answered only when the
\* local backend failed.
C15_BackendOrder ==
    \A w \in Workers :
        LET r == run[w] IN
        /\ r.remote # "none" => gdrive
        /\ (r.file_name # NoName /\ gdrive) =>
              (r.pc = "PERSIST_REMOTE" \/ r.remote # "none")
        /\ r.remote = "ok" =>
              /\ ~LocalTried(r) /\ r.fetchCalls = 1
              /\ r.file_path = GdriveLink(r.file_name, r.n)
              /\ r.pc \in {"UPSERT", "done"}
              /\ Done(w) => IsFresh(r.response)
        /\ LocalTried(r) <=>
              /\ r.file_name # NoName
              /\ ~gdrive \/ r.remote \in {"fetch_failed", "upload_failed"}
        /\ r.moved => r.file_path = LocalPath(r.file_name)
        /\ (Done(w) /\ r.response = SaveFailed) =>
              (r.failedAt # "none" /\ ~r.moved /\ r.file_path = NoPath)
        /\ (Done(w) /\ IsFresh(r.response)) => (r.remote = "ok" \/ r.moved)

\* the remote backend is configured, the upload failed, the local backend
\* stored the file and the run returned the fresh result for the local path
C15_Witness ==
    \E w \in Workers :
        /\ gdrive /\ run[w].remote = "upload_failed" /\ run[w].moved
        /\ Done(w) /\ IsFresh(run[w].response)
        /\ run[w].file_path = LocalPath(run[w].file_name)

\* ------------------------------------------------------------------ C16
\* the ledger rows of the render (application_id, report_id, api_render_id)
RowsOfRender(application_id, report_id, api_render_id) ==
    {row \in ledger : /\ row.application_id = application_id
                      /\ row.report_id = report_id
                      /\ row.api_render_id = api_render_id}

\* C16: when two runs have both persisted the artifact of one
\* (application_id, report_id, canonical id) and both have completed their
\* save_to_db, the ledger holds one row for that canonical id, and its
\* location is the location one of the two runs saved.
C16_Convergence ==
    \A w, v \in Workers :
        (/\ w # v /\ Done(w) /\ Done(v) /\ run[w].wrote /\ run[v].wrote
         /\ run[w].application_id = run[v].application_id
         /\ run[w].report_id = run[v].report_id
         /\ run[w].api_render_id = run[v].api_render_id) =>
            LET rows == RowsOfRender(run[w].application_id, run[w].report_id,
                                     IntStr(run[w].api_render_id))
            IN  /\ Cardinality(rows) = 1
                /\ \A row \in rows : row.file_path \in {run[w].file_path, run[v].file_path}

\* ------------------------------------------------------------------ C17
\* C17: every file present at a final artifact path holds the complete
\* fetched content.
C17_NoPartialFile ==
    \A p \in DOMAIN dir : p.kind = "local" => inodes[dir[p]] = AllChunks

\* ------------------------------------------------------------------ C19
\* C19: when a run has returned the fresh result for a file name, the
\* ledger holds a row with that file name, the run's canonical id and
\* request render id, and a location.
C19_FreshImpliesRecord ==
    \A w \in Workers :
        LET r == run[w] IN
        (Done(w) /\ IsFresh(r.response)) =>
            \E row \in ledger :
                /\ row.file_name = r.response.file_name
                /\ row.api_render_id = IntStr(r.api_render_id)
                /\ row.request_render_id = r.request_render_id
                /\ row.file_path # NoPath

\* ------------------------------------------------------------------ C20
\* the ledger holds a row for the file name the run returned, of the run's
\* application_id and report_id, and of its request render id or of the
\* canonical id its own status call returned
RefersToOwnRecord(r) ==
    \E row \in ledger :
        /\ row.file_name = r.response.file_name
        /\ row.application_id = r.application_id
        /\ row.report_id = r.report_id
        /\ \/ r.statusCalls = 0 /\ row.request_render_id = r.request_render_id
           \/ /\ StatusOk(r)
              /\ row.api_render_id = IntStr(r.reply.id)

\* C20: every cached or fresh result a run returned refers to a ledger row
\* of its own application_id and report_id, found by its request render id
\* or carrying the canonical id of its own status call.
C20_MatchesRequest ==
    \A w \in Workers :
        (Done(w) /\ (IsCached(run[w].response) \/ IsFresh(run[w].response)))
            => RefersToOwnRecord(run[w])

\* C20 for the runs whose save_to_db raised no error: the same statement,
\* and the returned file name itself carries the run's application_id,
\* report_id and, past the status call, its canonical id.
C20_MatchesRequest_Saved ==
    \A w \in Workers :
        LET r == run[w] IN
        (Done(w) /\ (IsCached(r.response) \/ IsFresh(r.response)) /\ ~r.dbError) =>
            /\ RefersToOwnRecord(r)
            /\ r.response.file_name.app = r.application_id
            /\ r.response.file_name.rep = r.report_id
            /\ r.statusCalls > 0 => r.response.file_name.api = IntStr(r.reply.id)

\* ------------------------------------------------------------------ C18
\* the state of the coordinator a handler position belongs to, in the
\* order of the state machine; the persist steps are FETCH_AND_PERSIST
StateOf(pc) ==
    CASE pc = "idle" -> 0
      [] pc = "CHECK_BY_REQUEST_ID" -> 1
      [] pc = "CHECK_STATUS" -> 2
      [] pc = "CHECK_BY_CANONICAL_ID" -> 3
      [] pc \in {"PERSIST_REMOTE", "PERSIST_LOCAL", "WRITE", "MOVE", "UPSERT"} -> 4
      [] pc = "done" -> 5

\* the terminal state a response stands for
Terminal(resp) ==
    IF IsCached(resp) \/ IsFresh(resp) THEN "DONE"
    ELSE IF resp = NotReadyYet \/ resp = NotFoundAfterRetries THEN "NOT_READY"
    ELSE IF resp = NoResponse THEN "NONE"
    ELSE "FAILED"

\* a step of a run in progress moves its worker to a later state, or stays
\* in CHECK_STATUS with the next attempt, or stays in FETCH_AND_PERSIST
InOrder(w) ==
    (run[w].pc \notin {"idle", "done"} /\ run'[w] # run[w]) =>
        /\ run'[w].n = run[w].n
        /\ \/ StateOf(run'[w].pc) > StateOf(run[w].pc)
           \/ /\ run[w].pc = "CHECK_STATUS" /\ run'[w].pc = "CHECK_STATUS"
              /\ run'[w].attempt # run[w].attempt
           \/ StateOf(run[w].pc) = 4 /\ StateOf(run'[w].pc) = 4

\* C18: every run in progress eventually returns, with the response of
\* exactly one terminal state (a run in progress has none); until then its
\* steps go through CHECK_BY_REQUEST_ID, CHECK_STATUS, CHECK_BY_CANONICAL_ID
\* and FETCH_AND_PERSIST in that order, repeating only the status call,
\* at most MaxAttempts times.
C18_Termination ==
    /\ \A w \in Workers : (run[w].pc \notin {"idle", "done"}) ~> Done(w)
    /\ [][\A w \in Workers : InOrder(w)]_vars
    /\ [](\A w \in Workers :
            /\ Done(w) <=> Terminal(run[w].response) \in {"DONE", "NOT_READY", "FAILED"}
            /\ run[w].statusCalls <= MaxAttempts)

\* a run went through every state: two 404 replies, a third status call
\* with a ready render, a miss, the local write, and the fresh result
C18_Witness ==
    \E w \in Workers :
        /\ Done(w) /\ run[w].statusCalls = MaxAttempts /\ run[w].moved
        /\ Terminal(run[w].response) = "DONE" /\ IsFresh(run[w].response)

====
